---- MODULE Spec2Model ----
(***************************************************************************)
(* A model of py-comment-indexer: the comment extractors (Python and       *)
(* TypeScript), the extractor factory, the directory scanner, the          *)
(* ChromaDB-backed store (ChromaManager) and the CLI commands add, search  *)
(* and clear that drive them.                                              *)
(*                                                                         *)
(* Text is a sequence of one-character strings, so that strip, join and    *)
(* the TypeScript comment pattern are computed character by character.     *)
(* A path is a sequence of components, each component a text.              *)
(***************************************************************************)
EXTENDS Integers, Sequences, FiniteSets, TLC

VARIABLES
    CHROMA_INSTALLED, \* comment_indexer.py:23-29, whether `import chromadb` succeeded
    dupPolicy,        \* what the backend's collection.add does with an id it already holds
    fs,               \* the directory tree under the scan root: path -> entry
    store,            \* the persisted collection: id -> document
    call              \* the last operation: its name, inputs and outcome

vars == <<CHROMA_INSTALLED, dupPolicy, fs, store, call>>

-----------------------------------------------------------------------------
(* Bounds of the model.                                                    *)

\* longest TypeScript file content, in characters
MaxLen == 4
\* most docstrings, and most line comments, in one Python file
MaxItems == 2
\* most entries of a directory tree given to the scanner
MaxEntries == 2
\* largest batch size given to add_comments (0 is given too)
MaxBatch == 2

-----------------------------------------------------------------------------
(* Text helpers: Python's str.strip and str.join.                          *)

\* the whitespace characters of the alphabet
Whitespace == {" ", "\n"}

RECURSIVE lstrip(_)
lstrip(s) ==
    IF s = <<>> THEN s
    ELSE IF Head(s) \in Whitespace THEN lstrip(Tail(s)) ELSE s

RECURSIVE rstrip(_)
rstrip(s) ==
    IF s = <<>> THEN s
    ELSE IF s[Len(s)] \in Whitespace THEN rstrip(SubSeq(s, 1, Len(s) - 1)) ELSE s

strip(s) == rstrip(lstrip(s))

RECURSIVE join(_, _)
join(sep, parts) ==
    IF parts = <<>> THEN <<>>
    ELSE IF Len(parts) = 1 THEN parts[1]
    ELSE parts[1] \o sep \o join(sep, Tail(parts))

\* [f(x) for x in xs]
RECURSIVE MapStrip(_)
MapStrip(xs) ==
    IF xs = <<>> THEN <<>> ELSE <<strip(Head(xs))>> \o MapStrip(Tail(xs))

\* all sequences over S of length at most n
SeqsUpTo(S, n) == UNION { [1..k -> S] : k \in 0..n }

\* what a call returns: a value, or the exception it raises
Returned(v) == [raised |-> "none", value |-> v]
Raised(e) == [raised |-> e, value |-> <<>>]

-----------------------------------------------------------------------------
(* TypeScriptExtractor (ts_extractors.py).                                 *)
(* A TypeScript file is [decodable, text]: whether its bytes are valid     *)
(* UTF-8, and the decoded characters.                                      *)

StartsAt(content, i, pre) ==
    /\ i + Len(pre) - 1 <= Len(content)
    /\ SubSeq(content, i, i + Len(pre) - 1) = pre

\* the last index of the run [^\n]* that starts at index i
RECURSIVE LineEnd(_, _)
LineEnd(content, i) ==
    IF i > Len(content) \/ content[i] = "\n" THEN i - 1
    ELSE LineEnd(content, i + 1)

\* the indexes j >= i at which the closing marker */ starts
Closers(content, i) ==
    { j \in i..(Len(content) - 1) : content[j] = "*" /\ content[j + 1] = "/" }

Least(S) == CHOOSE x \in S : \A y \in S : x <= y

\* re.findall(r"(\/\/[^\n]*|\/\*[\s\S]*?\*\/)", content), scanning from index i
RECURSIVE findall(_, _)
findall(content, i) ==
    IF i > Len(content) THEN <<>>
    ELSE IF StartsAt(content, i, <<"/", "/">>)
    THEN LET e == LineEnd(content, i + 2)
         IN  <<SubSeq(content, i, e)>> \o findall(content, e + 1)
    ELSE IF StartsAt(content, i, <<"/", "*">>) /\ Closers(content, i + 2) # {}
    THEN LET j == Least(Closers(content, i + 2))
         IN  <<SubSeq(content, i, j + 1)>> \o findall(content, j + 2)
    ELSE findall(content, i + 1)

\* the except clause of TypeScriptExtractor.extract_comments: it calls
\* logging.getLogger, and ts_extractors.py never imports logging
ts_except_handler == Raised("NameError")

TypeScriptExtractor_extract_comments(file) ==
    IF ~file.decodable THEN ts_except_handler
    ELSE Returned(join(<<" ">>, MapStrip(findall(file.text, 1))))

-----------------------------------------------------------------------------
(* PythonExtractor (py_extractors.py); CommentExtractor of                 *)
(* comment_indexer.py is the same code.                                    *)
(* A Python file is [decodable, parse, tok, docstrings, comments]:         *)
(*   parse       what ast.parse does: "ok", "SyntaxError", or "ValueError" *)
(*               (a NUL byte, CPython before 3.12)                         *)
(*   tok         what tokenize.tokenize does: "ok", "TokenError" or        *)
(*               "SyntaxError" (IndentationError is a SyntaxError)         *)
(*   docstrings  what ast.get_docstring gives for the module, function and *)
(*               class nodes that have one, in ast.walk order              *)
(*   comments    the COMMENT tokens' strings read before tokenize stops    *)
(* No ast node has a `docstring` attribute (py_extractors.py:57 never      *)
(* adds anything), so docstrings come from ast.get_docstring alone.        *)

extract_docstrings(file) ==
    IF ~file.decodable THEN Raised("UnicodeDecodeError")
    ELSE IF file.parse = "SyntaxError" THEN Returned(<<>>)
    ELSE IF file.parse # "ok" THEN Raised(file.parse)
    ELSE Returned(join(<<" ">>, MapStrip(file.docstrings)))

extract_line_comments(file) ==
    IF file.tok = "SyntaxError" THEN Raised("SyntaxError")
    ELSE Returned(join(<<" ">>, MapStrip(file.comments)))

\* a variant of py_concat that leaves the separator out
py_concat_nosep(docs, comments) == docs \o comments

\* docstrings + " " + comments
py_concat(docs, comments) == docs \o <<" ">> \o comments

PythonExtractor_extract_comments(file) ==
    LET d == extract_docstrings(file)
        c == extract_line_comments(file)
        r == IF d.raised # "none" THEN d
             ELSE IF c.raised # "none" THEN c
             ELSE Returned(py_concat(d.value, c.value))
    IN  IF r.raised \in {"SyntaxError", "UnicodeDecodeError"}
        THEN Returned(<<>>)
        ELSE r

-----------------------------------------------------------------------------
(* The files the extractors are applied to.                                *)

TsAlphabet == {"/", "*", "\n", "a", " "}

TsFiles ==
    { [decodable |-> TRUE, text |-> t] : t \in SeqsUpTo(TsAlphabet, MaxLen) }
    \cup { [decodable |-> FALSE, text |-> <<>>] }

RawDocstrings == { <<"d">>, <<"d", " ">> }
RawComments == { <<"#", "c">>, <<"#", "c", " ">> }

PyFiles ==
    { [decodable |-> TRUE, parse |-> "ok", tok |-> "ok", docstrings |-> d, comments |-> c] :
        d \in SeqsUpTo(RawDocstrings, MaxItems), c \in SeqsUpTo(RawComments, MaxItems) }
    \cup
    { [decodable |-> TRUE, parse |-> "SyntaxError", tok |-> t, docstrings |-> <<>>, comments |-> c] :
        t \in {"ok", "TokenError", "SyntaxError"}, c \in SeqsUpTo(RawComments, MaxItems) }
    \cup
    { [decodable |-> TRUE, parse |-> "ValueError", tok |-> "ok", docstrings |-> <<>>, comments |-> <<>>],
      [decodable |-> FALSE, parse |-> "ok", tok |-> "ok", docstrings |-> <<>>, comments |-> <<>>] }

-----------------------------------------------------------------------------
(* The extractors as operations.                                           *)

NoFiles == <<>>
NoEntries == <<>>

\* the extractor call about to be made: a variant and the file it is given
ExtractInit ==
    /\ CHROMA_INSTALLED = TRUE
    /\ dupPolicy = "ignore"
    /\ fs = NoFiles
    /\ store = NoEntries
    /\ call \in { [op |-> "pending", variant |-> "ts", file |-> f] : f \in TsFiles }
               \cup { [op |-> "pending", variant |-> "py", file |-> f] : f \in PyFiles }

TsExtract ==
    /\ call.op = "pending" /\ call.variant = "ts"
    /\ call' = [op |-> "extract_comments", variant |-> "ts", file |-> call.file,
                result |-> TypeScriptExtractor_extract_comments(call.file)]
    /\ UNCHANGED <<CHROMA_INSTALLED, dupPolicy, fs, store>>

PyExtract ==
    /\ call.op = "pending" /\ call.variant = "py"
    /\ call' = [op |-> "extract_comments", variant |-> "py", file |-> call.file,
                result |-> PythonExtractor_extract_comments(call.file)]
    /\ UNCHANGED <<CHROMA_INSTALLED, dupPolicy, fs, store>>

ExtractNext == TsExtract \/ PyExtract

ExtractSpec == ExtractInit /\ [][ExtractNext]_vars

-----------------------------------------------------------------------------
(* Paths (pathlib.Path): a sequence of components; the last is the name.   *)

Dot == "."
PY == <<".", "p", "y">>
TS == <<".", "t", "s">>

name(p) == p[Len(p)]

\* str.startswith
startswith(s, pre) == StartsAt(s, 1, pre)

\* Path.suffix: from the last dot of the name, unless that dot leads or ends it
suffix(p) ==
    LET n == name(p)
        dots == { i \in 1..Len(n) : n[i] = Dot }
    IN  IF dots = {} THEN <<>>
        ELSE LET i == CHOOSE d \in dots : \A e \in dots : e <= d
             IN  IF i = 1 \/ i = Len(n) THEN <<>> ELSE SubSeq(n, i, Len(n))

\* str.lower, on the letters of the alphabet
lower_char(c) ==
    CASE c = "P" -> "p" [] c = "Y" -> "y" [] c = "T" -> "t" [] c = "S" -> "s"
      [] OTHER -> c

lower(s) == [i \in 1..Len(s) |-> lower_char(s[i])]

\* str(path): the components joined by the separator
path_str(p) == join(<<"/">>, p)

\* Path.relative_to(base)
relative_to(p, base) == SubSeq(p, Len(base) + 1, Len(p))

\* the scan root (the add command's directory argument)
base_dir == << <<"r">> >>

-----------------------------------------------------------------------------
(* ExtractorFactory.get_extractor (extractor_factory.py).                  *)

get_extractor(p) ==
    LET ext == lower(suffix(p))
    IN  IF ext = PY THEN Returned("py")
        ELSE IF ext = TS THEN Returned("ts")
        ELSE Raised("ValueError")

-----------------------------------------------------------------------------
(* scan_python_files (utils.py, comment_indexer.py).                       *)
(* A directory tree maps the path of each entry, relative to the root, to  *)
(* [is_file, content]; the directories on the way to an entry are implied. *)

\* name matches the pattern "*.py" (fnmatch, case-sensitive)
matches_py(n) == Len(n) >= Len(PY) /\ SubSeq(n, Len(n) - Len(PY) + 1, Len(n)) = PY

\* directory.rglob("*.py"): every entry under the root, at any depth, hidden
\* directories included, whose name matches
rglob_py(tree) == { base_dir \o rel : rel \in { r \in DOMAIN tree : matches_py(name(r)) } }

scan_filter(tree, p) ==
    /\ tree[relative_to(p, base_dir)].is_file
    /\ ~startswith(name(p), <<Dot>>)

\* the paths the scan returns (as a set; the list's order is the walk's)
scan_python_files(tree) == { p \in rglob_py(tree) : scan_filter(tree, p) }

\* the orders in which a walk may list a set of paths
Orders(S) ==
    { o \in [1..Cardinality(S) -> S] : \A i, j \in 1..Cardinality(S) : o[i] = o[j] => i = j }

-----------------------------------------------------------------------------
(* The directory trees the scanner is applied to.                          *)

A_PY == <<"a", ".", "p", "y">>
B_PY == <<"b", ".", "p", "y">>
C_PY == <<"c", ".", "p", "y">>
HIDDEN_PY == <<".", "e", ".", "p", "y">>
F_TS == <<"f", ".", "t", "s">>
G_TXT == <<"g", ".", "t", "x", "t">>
PKG == <<"p", "k", "g">>
GIT == <<".", "g">>
VENV == <<"v", "e", "n", "v">>

ScanPaths ==
    { <<A_PY>>, <<PKG, B_PY>>, <<GIT, C_PY>>, <<VENV, C_PY>>, <<HIDDEN_PY>>, <<F_TS>>, <<G_TXT>> }

PyPlain == [decodable |-> TRUE, parse |-> "ok", tok |-> "ok", docstrings |-> <<>>, comments |-> <<>>]
TsPlain == [decodable |-> TRUE, text |-> <<"a">>]

PlainContent(p) == IF suffix(p) = TS THEN TsPlain ELSE PyPlain

ScanTrees ==
    UNION { [S -> { [is_file |-> b, content |-> c] : b \in BOOLEAN, c \in {PyPlain, TsPlain} }] :
              S \in { T \in SUBSET ScanPaths : Cardinality(T) <= MaxEntries } }

WellFormed(tree) == \A p \in DOMAIN tree : tree[p].content = PlainContent(p)

ScanInit ==
    /\ CHROMA_INSTALLED = TRUE
    /\ dupPolicy = "ignore"
    /\ fs \in { t \in ScanTrees : WellFormed(t) }
    /\ store = NoEntries
    /\ call = [op |-> "none"]

Scan ==
    /\ call.op = "none"
    /\ \E files \in Orders(scan_python_files(fs)) :
          call' = [op |-> "scan_python_files", files |-> files]
    /\ UNCHANGED <<CHROMA_INSTALLED, dupPolicy, fs, store>>

ScanNext == Scan

ScanSpec == ScanInit /\ [][ScanNext]_vars

-----------------------------------------------------------------------------
(* ChromaManager (database.py, comment_indexer.py).                        *)
(* The collection is a function from ids to documents.  A comment_dict is  *)
(* a sequence of <<id, text>> pairs with distinct ids: a dict in its       *)
(* insertion order.  The backend's failures are inputs: faults.conn makes  *)
(* get_or_create_collection raise, faults.write = k > 0 makes the k-th     *)
(* collection.add of the call raise, faults.query makes collection.query   *)
(* raise.  A collection.add that raises persists nothing of its batch.     *)
(* dupPolicy is the backend's answer to an id it already holds: it keeps   *)
(* the old document ("ignore") or takes the new one ("overwrite").         *)

\* ChromaManager.__init__: raises when chromadb could not be imported
ChromaManager_init ==
    IF CHROMA_INSTALLED THEN Returned("client") ELSE Raised("RuntimeError")

Ids(batch) == { batch[i][1] : i \in 1..Len(batch) }
DocOf(batch, id) == batch[CHOOSE i \in 1..Len(batch) : batch[i][1] = id][2]

\* the backend's collection.add(ids=..., documents=...)
collection_add(st, batch) ==
    [id \in DOMAIN st \cup Ids(batch) |->
        IF id \in DOMAIN st /\ (dupPolicy = "ignore" \/ id \notin Ids(batch))
        THEN st[id]
        ELSE DocOf(batch, id)]

\* the test of database.py:76, `if comment:`
keeps(comment) == comment # <<>>

\* a variant of batch_full that flushes only past the batch size
batch_full_gt(buf, batch_size) == Len(buf) > batch_size

\* the test of database.py:80, `if len(ids) >= batch_size`
batch_full(buf, batch_size) == Len(buf) >= batch_size

\* one collection.add of a batch, after `writes` earlier ones: it raises when it
\* is the call the fault names, and otherwise the buffer starts anew
flush(buf, st, writes, faults) ==
    IF faults.write = Len(writes) + 1
    THEN [buf |-> buf, store |-> st, writes |-> writes, calls |-> Len(writes) + 1,
          raised |-> "add"]
    ELSE [buf |-> <<>>, store |-> collection_add(st, buf), writes |-> Append(writes, buf),
          calls |-> Len(writes) + 1, raised |-> "none"]

\* the loop of add_comments (database.py:75-82) over the items not yet seen,
\* with the buffered batch, the collection and the batches written so far
RECURSIVE add_loop(_, _, _, _, _, _)
add_loop(items, buf, st, writes, batch_size, faults) ==
    IF items = <<>>
    THEN [buf |-> buf, store |-> st, writes |-> writes, calls |-> Len(writes),
          raised |-> "none"]
    ELSE IF keeps(Head(items)[2])
    THEN LET b == Append(buf, Head(items))
         IN  IF batch_full(b, batch_size)
             THEN LET w == flush(b, st, writes, faults)
                  IN  IF w.raised # "none" THEN w
                      ELSE add_loop(Tail(items), w.buf, w.store, w.writes, batch_size, faults)
             ELSE add_loop(Tail(items), b, st, writes, batch_size, faults)
    ELSE add_loop(Tail(items), buf, st, writes, batch_size, faults)

\* a variant of final_flush that forgets the last, partial batch
final_flush_missing(l, faults) == [l EXCEPT !.buf = <<>>]

\* database.py:84-85, `if ids: collection.add(...)` after the loop
final_flush(l, faults) ==
    IF l.buf # <<>> THEN flush(l.buf, l.store, l.writes, faults) ELSE l

\* a variant of add_comments that undoes its writes when one of them fails
add_comments_rollback(st, comment_dict, batch_size, faults) ==
    IF faults.conn
    THEN [buf |-> <<>>, store |-> st, writes |-> <<>>, calls |-> 0, raised |-> "get_collection"]
    ELSE LET l == add_loop(comment_dict, <<>>, st, <<>>, batch_size, faults)
             r == IF l.raised # "none" THEN l ELSE final_flush(l, faults)
         IN  IF r.raised # "none" THEN [r EXCEPT !.store = st, !.writes = <<>>] ELSE r

add_comments(st, comment_dict, batch_size, faults) ==
    IF faults.conn
    THEN [buf |-> <<>>, store |-> st, writes |-> <<>>, calls |-> 0, raised |-> "get_collection"]
    ELSE LET l == add_loop(comment_dict, <<>>, st, <<>>, batch_size, faults)
         IN  IF l.raised # "none" THEN l ELSE final_flush(l, faults)

\* round(score, 3): scores are in ten-thousandths, the result in thousandths
\* (no score of the model lies halfway)
round3(score) == (score + 5) \div 10

\* a variant of query_failed that lets the backend's error through
query_failed_raises == Raised("Exception")

\* the except clause of query_similar: the error is logged, result stays []
query_failed == Returned(<<>>)

\* list(zip(response['ids'][0], [round(score, 3) for score in response['distances'][0]]))
query_similar(response, faults) ==
    IF faults.conn \/ faults.query THEN query_failed
    ELSE Returned([i \in 1..Len(response.ids) |->
                      <<response.ids[i], round3(response.distances[i])>>])

\* client.reset()
clear_database(st) == NoEntries

-----------------------------------------------------------------------------
(* The inputs of the store's operations.                                   *)

K1 == <<"k", "1">>
K2 == <<"k", "2">>

UpsertIds == <<path_str(<<A_PY>>), K1, K2>>
UpsertTexts == { <<>>, <<"t">> }

\* the comment_dicts over some of the ids, inserted in the order of UpsertIds;
\* pick[i] is the text of the i-th id, or Absent when the dict does not hold it
Absent == <<"(absent)">>

RECURSIVE DictOf(_, _)
DictOf(pick, i) ==
    IF i > Len(UpsertIds) THEN <<>>
    ELSE (IF pick[i] = Absent THEN <<>> ELSE << <<UpsertIds[i], pick[i]>> >>)
         \o DictOf(pick, i + 1)

DictsWith(texts) ==
    { DictOf(pick, 1) : pick \in [1..Len(UpsertIds) -> texts \cup {Absent}] }

UpsertDicts == DictsWith(UpsertTexts)

Batches == 0..MaxBatch

NoFaults == [conn |-> FALSE, write |-> 0, query |-> FALSE]

WriteFaults ==
    { [conn |-> FALSE, write |-> w, query |-> FALSE] : w \in 0..Len(UpsertIds) }
    \cup { [conn |-> TRUE, write |-> 0, query |-> FALSE] }

QueryFaults ==
    { NoFaults, [conn |-> TRUE, write |-> 0, query |-> FALSE],
      [conn |-> FALSE, write |-> 0, query |-> TRUE] }

\* database.py:87, the default of n_results
N_RESULTS == 5

Scores == {4, 14}

\* what the backend may answer to a query for n results: that many ids of the
\* collection (all of them when it holds fewer), nearest first
Responses(st, n, scores) ==
    LET m == IF Cardinality(DOMAIN st) < n THEN Cardinality(DOMAIN st) ELSE n
    IN  { [ids |-> i, distances |-> d] :
            i \in { o \in [1..m -> DOMAIN st] : \A a, b \in 1..m : o[a] = o[b] => a = b },
            d \in { o \in [1..m -> scores] : \A a, b \in 1..m : a <= b => o[a] <= o[b] } }

-----------------------------------------------------------------------------
(* The store's operations, called on a ChromaManager.                      *)

UpsertInit ==
    /\ CHROMA_INSTALLED = TRUE
    /\ dupPolicy \in {"ignore", "overwrite"}
    /\ fs = NoFiles
    /\ store = NoEntries
    /\ call = [op |-> "none"]

AddComments(dicts, sizes, faultSet) ==
    \E d \in dicts, b \in sizes, f \in faultSet :
        LET r == add_comments(store, d, b, f)
        IN  /\ ChromaManager_init.raised = "none"
            /\ store' = r.store
            /\ call' = [op |-> "add_comments", comment_dict |-> d, batch_size |-> b,
                        faults |-> f, before |-> store, writes |-> r.writes,
                        calls |-> r.calls, raised |-> r.raised]
            /\ UNCHANGED <<CHROMA_INSTALLED, dupPolicy, fs>>

QuerySimilar(ns) ==
    \E n \in ns, f \in QueryFaults : \E resp \in Responses(store, n, Scores) :
        /\ ChromaManager_init.raised = "none"
        /\ call' = [op |-> "query_similar", n_results |-> n, faults |-> f, before |-> store,
                    result |-> query_similar(resp, f)]
        /\ UNCHANGED <<CHROMA_INSTALLED, dupPolicy, fs, store>>

ClearDatabase ==
    /\ ChromaManager_init.raised = "none"
    /\ store' = clear_database(store)
    /\ call' = [op |-> "clear_database", before |-> store]
    /\ UNCHANGED <<CHROMA_INSTALLED, dupPolicy, fs>>

UpsertNext ==
    \/ AddComments(UpsertDicts, Batches, WriteFaults)
    \/ QuerySimilar({1, N_RESULTS})
    \/ ClearDatabase

UpsertSpec == UpsertInit /\ [][UpsertNext]_vars

-----------------------------------------------------------------------------
(* The CLI commands (comment_indexer.py): init, add, search, clear.        *)

CommentExtractor_extract_comments(file) == PythonExtractor_extract_comments(file)

\* a variant of is_valid that tests the text without stripping it
is_valid_unstripped(kv) == kv[2] # <<>>

\* the filter of comment_indexer.py:213, `if v.strip()`
is_valid(kv) == strip(kv[2]) # <<>>

\* the add command over the tree, with the scan's list of files
add(tree, st, py_files, batch, faults) ==
    IF py_files = <<>> THEN [store |-> st, outcome |-> "no_files"]
    ELSE IF ChromaManager_init.raised # "none"
    THEN [store |-> st, outcome |-> ChromaManager_init.raised]
    ELSE
    LET extracted == [i \in 1..Len(py_files) |->
                        CommentExtractor_extract_comments(
                            tree[relative_to(py_files[i], base_dir)].content)]
        failed == { i \in 1..Len(py_files) : extracted[i].raised # "none" }
        comment_dict == [i \in 1..Len(py_files) |->
                           <<path_str(relative_to(py_files[i], base_dir)), extracted[i].value>>]
        valid_files == SelectSeq(comment_dict, is_valid)
    IN  IF failed # {} THEN [store |-> st, outcome |-> extracted[Least(failed)].raised]
        ELSE IF valid_files = <<>> THEN [store |-> st, outcome |-> "nothing_valid"]
        ELSE LET r == add_comments(st, valid_files, batch, faults)
             IN  [store |-> r.store,
                  outcome |-> IF r.raised = "none" THEN "added" ELSE r.raised]

\* a variant of confirm_dangerous whose default is to go ahead
confirm_dangerous_default_yes(answer) == answer # "no"

\* confirm_dangerous: prompt([question]).get("confirm", False)
confirm_dangerous(answer) == answer = "yes"

\* the clear command
clear(st, answer) ==
    IF ~confirm_dangerous(answer) THEN [store |-> st, outcome |-> "declined"]
    ELSE IF ChromaManager_init.raised # "none"
    THEN [store |-> st, outcome |-> ChromaManager_init.raised]
    ELSE [store |-> clear_database(st), outcome |-> "cleared"]

\* the search command: the query of the option, else the prompt's, stripped
user_query(query, typed) == IF query # <<>> THEN query ELSE strip(typed)

search(query, typed, response, faults) ==
    IF user_query(query, typed) = <<>> THEN [outcome |-> "cancelled", results |-> <<>>]
    ELSE IF ChromaManager_init.raised # "none"
    THEN [outcome |-> ChromaManager_init.raised, results |-> <<>>]
    ELSE LET r == query_similar(response, faults)
         IN  IF r.raised # "none" THEN [outcome |-> r.raised, results |-> <<>>]
             ELSE [outcome |-> IF r.value # <<>> THEN "results" ELSE "no_match",
                   results |-> r.value]

-----------------------------------------------------------------------------
(* The directory the commands run on, and what the user changes in it.     *)

PyCommented == [decodable |-> TRUE, parse |-> "ok", tok |-> "ok", docstrings |-> <<>>,
                comments |-> << <<"#", "c">> >>]
PyNul == [decodable |-> TRUE, parse |-> "ValueError", tok |-> "ok", docstrings |-> <<>>,
          comments |-> <<>>]
TsTodo == [decodable |-> TRUE, text |-> <<"/", "/", "a">>]

SpecPaths == { <<A_PY>>, <<PKG, B_PY>>, <<GIT, C_PY>>, <<F_TS>> }

ContentsFor(p) ==
    IF suffix(p) = TS THEN {TsTodo}
    ELSE IF p = <<A_PY>> THEN {PyPlain, PyCommented, PyNul}
    ELSE {PyCommented}

SpecDicts == { << <<path_str(<<A_PY>>), t>> >> : t \in { <<>>, <<" ">>, <<"t">> } }

\* the --query option (empty when not given) and what the prompt is answered
SearchInputs ==
    { [query |-> <<"a">>, typed |-> <<>>], [query |-> <<>>, typed |-> <<"a", " ">>],
      [query |-> <<>>, typed |-> <<" ">>] }

SpecFaults == { f \in WriteFaults : f.write <= 2 }

Init ==
    /\ CHROMA_INSTALLED \in BOOLEAN
    /\ dupPolicy \in {"ignore", "overwrite"}
    /\ fs = NoFiles
    /\ store = NoEntries
    /\ call = [op |-> "none"]

WriteFile ==
    \E p \in SpecPaths : \E c \in ContentsFor(p) :
        /\ fs' = [q \in DOMAIN fs \cup {p} |->
                    IF q = p THEN [is_file |-> TRUE, content |-> c] ELSE fs[q]]
        /\ call' = [op |-> "edit"]
        /\ UNCHANGED <<CHROMA_INSTALLED, dupPolicy, store>>

RemoveFile ==
    \E p \in DOMAIN fs :
        /\ fs' = [q \in DOMAIN fs \ {p} |-> fs[q]]
        /\ call' = [op |-> "edit"]
        /\ UNCHANGED <<CHROMA_INSTALLED, dupPolicy, store>>

InitCmd ==
    /\ call' = [op |-> "init", outcome |-> ChromaManager_init.raised]
    /\ UNCHANGED <<CHROMA_INSTALLED, dupPolicy, fs, store>>

\* repeat: the run follows, with nothing in between, an add run that completed
AddCmd ==
    \E py_files \in Orders(scan_python_files(fs)), b \in Batches, f \in SpecFaults :
        LET r == add(fs, store, py_files, b, f)
        IN  /\ store' = r.store
            /\ call' = [op |-> "add", before |-> store, outcome |-> r.outcome,
                        faults |-> f,
                        repeat |-> call.op = "add" /\ call.outcome \in {"added", "nothing_valid", "no_files"}]
            /\ UNCHANGED <<CHROMA_INSTALLED, dupPolicy, fs>>

SearchCmd ==
    \E in \in SearchInputs, f \in QueryFaults :
        \E resp \in Responses(store, N_RESULTS, {4}) :
            LET r == search(in.query, in.typed, resp, f)
            IN  /\ call' = [op |-> "search", before |-> store, outcome |-> r.outcome,
                            faults |-> f, results |-> r.results]
                /\ UNCHANGED <<CHROMA_INSTALLED, dupPolicy, fs, store>>

ClearCmd ==
    \E answer \in {"yes", "no", "none"} :
        LET r == clear(store, answer)
        IN  /\ store' = r.store
            /\ call' = [op |-> "clear", before |-> store, answer |-> answer,
                        outcome |-> r.outcome]
            /\ UNCHANGED <<CHROMA_INSTALLED, dupPolicy, fs>>

Next ==
    \/ WriteFile
    \/ RemoveFile
    \/ InitCmd
    \/ AddCmd
    \/ SearchCmd
    \/ ClearCmd
    \/ AddComments(SpecDicts, {1}, {NoFaults})

Spec == Init /\ [][Next]_vars

-----------------------------------------------------------------------------
(* Properties.                                                             *)

RECURSIVE Flatten(_)
Flatten(batches) ==
    IF batches = <<>> THEN <<>> ELSE Head(batches) \o Flatten(Tail(batches))

Records(d) == { d[i] : i \in 1..Len(d) }

HasText(kv) == kv[2] # <<>>
NonEmpty(d) == SelectSeq(d, HasText)

CeilDiv(n, b) == (n + b - 1) \div b

Upserted == call.op = "add_comments" /\ call.raised = "none" /\ call.batch_size >= 1

\* C1 (as claimed): one add_comments call over N records with batch size
\* B >= 1 makes ceil(N/B) write calls, and the records written are exactly
\* the input records, each once, those with empty text included.
C1_AllRecordsWritten ==
    Upserted =>
        /\ call.calls = CeilDiv(Len(call.comment_dict), call.batch_size)
        /\ Records(Flatten(call.writes)) = Records(call.comment_dict)
        /\ Len(Flatten(call.writes)) = Len(call.comment_dict)

\* C1 (amended): one add_comments call with batch size B >= 1 makes
\* ceil(M/B) write calls, M being the number of input records with non-empty
\* text, and the records written are exactly those M records, each once;
\* records with empty text are skipped.
C1_NonEmptyRecordsWritten ==
    Upserted =>
        /\ call.calls = CeilDiv(Len(NonEmpty(call.comment_dict)), call.batch_size)
        /\ Len(call.writes) = call.calls
        /\ Records(Flatten(call.writes)) = Records(NonEmpty(call.comment_dict))
        /\ Len(Flatten(call.writes)) = Len(NonEmpty(call.comment_dict))

\* C1 witness: three records, one of them with empty text, batch size 2: one
\* write call, where ceil(3/2) is 2.
C1_Witness ==
    /\ Upserted
    /\ call.batch_size = 2
    /\ Len(call.comment_dict) = 3
    /\ Len(NonEmpty(call.comment_dict)) = 2
    /\ call.calls = 1

IsBlank(text) == strip(text) = <<>>

\* C2 (as claimed): no entry of the store has an empty or whitespace-only
\* document, whatever add runs, add_comments calls, queries and clears led
\* to the state.
C2_NoBlankDocument == \A id \in DOMAIN store : ~IsBlank(store[id])

\* C2 (amended): no entry of the store has an empty document, and an add run
\* persists no whitespace-only document: after an add run, an entry with a
\* whitespace-only document was there, unchanged, before the run (put by an
\* add_comments call that was given it).
C2_NoEmptyAndAddPersistsNoBlank ==
    /\ \A id \in DOMAIN store : store[id] # <<>>
    /\ call.op = "add" =>
          \A id \in DOMAIN store :
              IsBlank(store[id]) => id \in DOMAIN call.before /\ call.before[id] = store[id]

\* C2 witness: an add run that added something, over a tree holding a.py
\* without comments (its extracted text is one space), left a.py out.
C2_Witness ==
    /\ call.op = "add" /\ call.outcome = "added"
    /\ <<A_PY>> \in DOMAIN fs /\ fs[<<A_PY>>].content = PyPlain
    /\ path_str(<<A_PY>>) \notin DOMAIN store

\* the markers of a virtual-environment directory
VenvMarkers == {VENV}

IsHidden(component) == startswith(component, <<Dot>>)

InExcludedDirectory(rel) ==
    \E i \in 1..(Len(rel) - 1) : IsHidden(rel[i]) \/ rel[i] \in VenvMarkers

\* C3 (as claimed): the scanner's result holds no path inside a hidden or
\* virtual-environment directory, no hidden file, and no file whose
\* extension is not supported.
C3_ScanExcludes ==
    call.op = "scan_python_files" =>
        \A i \in 1..Len(call.files) :
            LET rel == relative_to(call.files[i], base_dir)
            IN  /\ ~InExcludedDirectory(rel)
                /\ ~IsHidden(name(rel))
                /\ get_extractor(rel).raised = "none"

Unparseable ==
    \/ ~call.file.decodable
    \/ call.variant = "py" /\ (call.file.parse # "ok" \/ call.file.tok # "ok")

\* C4 (as claimed): for a file that cannot be decoded, parsed or tokenized,
\* extract_comments of either variant returns the empty string and raises
\* nothing.
C4_UnparseableGivesEmpty ==
    (call.op = "extract_comments" /\ Unparseable) => call.result = Returned(<<>>)

\* a TypeScript text with no comment opener, a Python file with no docstring
\* and no comment token
NoComments ==
    IF call.variant = "ts"
    THEN \A i \in 1..(Len(call.file.text) - 1) :
            ~(call.file.text[i] = "/" /\ call.file.text[i + 1] \in {"/", "*"})
    ELSE call.file.docstrings = <<>> /\ call.file.comments = <<>>

\* C5 (as claimed): for a readable file with no comment and no docstring,
\* extract_comments of either variant returns exactly the empty string.
C5_NoCommentsGivesEmpty ==
    (call.op = "extract_comments" /\ call.file.decodable /\ NoComments) =>
        call.result = Returned(<<>>)

\* C5 (amended): for a readable file that parses and has no comment and no
\* docstring, the TypeScript variant returns the empty string and the Python
\* variant returns one space (empty once trimmed); neither raises.
C5_NoCommentsGivesBlank ==
    (/\ call.op = "extract_comments" /\ call.file.decodable /\ NoComments
     /\ call.variant = "py" => call.file.parse = "ok") =>
        /\ call.result.raised = "none"
        /\ IsBlank(call.result.value)
        /\ call.result.value = IF call.variant = "ts" THEN <<>> ELSE <<" ">>

\* C5 witness: the Python variant applied to a file that parses and has no
\* docstring and no comment.
C5_Witness ==
    /\ call.op = "extract_comments" /\ call.variant = "py"
    /\ call.file = PyPlain
    /\ call.result = Returned(<<" ">>)

Completed == call.outcome \in {"added", "nothing_valid", "no_files"}

\* what the extractor selected for the file extracts from it
ExtractedText(p) ==
    IF get_extractor(p).value = "ts"
    THEN TypeScriptExtractor_extract_comments(fs[p].content)
    ELSE PythonExtractor_extract_comments(fs[p].content)

\* C6 (as claimed): after an add run completes, every non-hidden file of the
\* tree with a supported extension whose extracted text is non-empty once
\* trimmed has an entry in the store, its id the relative path and its
\* document the extracted text.
C6_AddIndexesSupportedFiles ==
    (call.op = "add" /\ Completed) =>
        \A p \in DOMAIN fs :
            (/\ fs[p].is_file /\ ~IsHidden(name(p))
             /\ get_extractor(p).raised = "none"
             /\ ExtractedText(p).raised = "none"
             /\ ~IsBlank(ExtractedText(p).value)) =>
                /\ path_str(p) \in DOMAIN store
                /\ store[path_str(p)] = ExtractedText(p).value

\* C7: a clear that is not confirmed leaves the store as it was; a confirmed
\* clear leaves it empty, and a search returns only ids the store holds (so
\* none after the clear).
C7_ClearNeedsConfirmation ==
    /\ call.op = "clear" =>
          /\ call.answer # "yes" => store = call.before
          /\ call.answer = "yes" => store = NoEntries
    /\ call.op = "search" =>
          \A i \in 1..Len(call.results) : call.results[i][1] \in DOMAIN store

\* C7 witness: a confirmed clear of a store that held entries.
C7_Witness ==
    /\ call.op = "clear" /\ call.answer = "yes"
    /\ call.before # NoEntries
    /\ store = NoEntries

\* C8: an add run that directly follows a completed add run over the same
\* tree leaves the store with the ids it had, and completes unless the
\* backend fails.
C8_AddTwiceSameIds ==
    (call.op = "add" /\ call.repeat) =>
        /\ DOMAIN store = DOMAIN call.before
        /\ call.faults = NoFaults => Completed

\* C8 witness: a second add run in a row that added, over three files.
C8_Witness ==
    /\ call.op = "add" /\ call.repeat /\ call.outcome = "added"
    /\ Cardinality(DOMAIN store) = 3

\* C9: when the backend fails during a query, obtaining the collection or
\* searching, query_similar returns an empty list, raises nothing, and the
\* store is as it was.
C9_QueryFailureGivesEmpty ==
    (call.op = "query_similar" /\ (call.faults.conn \/ call.faults.query)) =>
        /\ call.result = Returned(<<>>)
        /\ store = call.before

\* C9 witness: a failed search of a collection that holds entries.
C9_Witness ==
    /\ call.op = "query_similar" /\ call.faults.query
    /\ store # NoEntries
    /\ call.result.value = <<>>

\* the size of the batches add_comments writes
BatchLen == IF call.batch_size >= 1 THEN call.batch_size ELSE 1

\* the records of the batches before the k-th
BeforeBatch(k) ==
    SubSeq(NonEmpty(call.comment_dict), 1, (k - 1) * BatchLen)

\* C10: when the k-th write of an add_comments call fails, the call raises
\* after k write calls, and the store holds what it held before plus exactly
\* the records of the first k-1 batches.
C10_FailedWriteKeepsEarlierBatches ==
    (/\ call.op = "add_comments" /\ ~call.faults.conn
     /\ call.faults.write >= 1
     /\ call.faults.write <= CeilDiv(Len(NonEmpty(call.comment_dict)), BatchLen)) =>
        LET written == BeforeBatch(call.faults.write)
        IN  /\ call.raised = "add"
            /\ call.calls = call.faults.write
            /\ Flatten(call.writes) = written
            /\ DOMAIN store = DOMAIN call.before \cup Ids(written)
            /\ \A id \in DOMAIN store :
                  /\ id \notin Ids(written) => store[id] = call.before[id]
                  /\ id \notin DOMAIN call.before => store[id] = DocOf(written, id)

\* C10 witness: the second of three single-record writes fails, into an
\* empty store: one record is kept.
C10_Witness ==
    /\ call.op = "add_comments" /\ call.raised = "add"
    /\ call.batch_size = 1 /\ call.faults.write = 2
    /\ Len(NonEmpty(call.comment_dict)) = 3
    /\ call.before = NoEntries
    /\ Cardinality(DOMAIN store) = 1

====
